---- MODULE Spec2Model ----
(***************************************************************************)
(* The WhatsApp connection manager of wa-service (lib/whatsapp.ts): the    *)
(* module-level connection state, the QR cache, the socket reference, and  *)
(* the asynchronous operations getWhatsAppStatus, generateQRCode,          *)
(* reconnectWhatsApp, initializeWhatsApp, cleanupSocket and                *)
(* handleConnectionUpdate, interleaved at their await points on one        *)
(* event loop.                                                             *)
(*                                                                         *)
(* Instants are kept relative to the current instant: an expiry is the     *)
(* number of clock ticks left until it (0: it is now, -1: it is past), and *)
(* Tick moves the clock.  Timer waits and transport calls may complete at  *)
(* any moment; a bounded wait loop ends when its condition fails or, at    *)
(* any wake-up, because its iteration count ran out.                       *)
(***************************************************************************)
EXTENDS Integers, Sequences, FiniteSets, TLC

\* ---- bounds of the model
MaxSessions == 2        \* transport sessions, and initializations, ever created
MaxTasks == 2           \* asynchronous callers in flight at once
MaxCalls == 2           \* public asynchronous operations ever started
MaxOverlap == 1         \* public asynchronous operations in flight at once
MaxQr == 1              \* QR payloads ever emitted by the transport
MaxTimers == 1          \* auto-reconnect timers pending at once
TicksPerValidity == 2   \* clock ticks in the 60 s validity of a QR
BackoffSessions == 11   \* sessions of the auto-reconnect scenario

\* ---- program constants
MAX_RECONNECT_ATTEMPTS == 10
INITIAL_RECONNECT_DELAY == 5000
MAX_RECONNECT_DELAY == 60000
QR_VALIDITY_SECONDS == 60
CONFLICT == 440
LOGGED_OUT == 401
CONNECTION_CLOSED == 428
NULL == 0
NoDate == -2
Past == -1
ImageBase == 100

VARIABLES
  g,          \* the module-level variables of whatsapp.ts, and Node's pending timers
  sess,       \* the transport sessions (sockets) created so far
  tasks,      \* call stacks of the asynchronous callers in flight
  running,    \* the caller executing synchronous code, or NULL
  rv,         \* the value a returning call hands to its caller
  bodies,     \* the initialization promises and their bodies
  cl,         \* the one cleanupSocket in progress
  encoding,   \* QR payloads whose handler-side QRCode.toDataURL is pending
  qrp,        \* the QR promises: unused (Past), pending (NULL) or resolved (payload)
  qrs,        \* which session emitted each QR payload
  calls,      \* public asynchronous operations started so far
  ret,        \* the result a public operation returned in the last step
  hist,       \* history: the auto-reconnect schedule
  lim         \* the scenario: how many public operations, how many at once, history
              \* kept, how many timers pending at once

vars == <<g, sess, tasks, running, rv, bodies, cl, encoding, qrp, qrs, calls, ret, hist, lim>>

Min(a, b) == IF a < b THEN a ELSE b
Max(a, b) == IF a > b THEN a ELSE b

RECURSIVE Pow2(_)
Pow2(n) == IF n = 0 THEN 1 ELSE 2 * Pow2(n - 1)

Phases == {"DISCONNECTED", "CONNECTING", "QR_READY", "CONNECTED", "PAIRING"}

\* ---- time
TickMs == (QR_VALIDITY_SECONDS * 1000) \div TicksPerValidity
\* new Date(Date.now() + 60 * 1000), as ticks from now
FreshExpiry == TicksPerValidity
\* new Date() > d   and   new Date() < d
NowAfter(d) == d < 0
NowBefore(d) == d > 0
\* Math.max(0, Math.floor((d.getTime() - Date.now()) / 1000))
RemainingSeconds(d) == Max(0, (d * TickMs) \div 1000)
Elapse(d) == IF d = NoDate \/ d = Past THEN d ELSE d - 1

\* QRCode.toDataURL(qr): the image of a payload
ToDataURL(p) == ImageBase + p

\* ---- the initial module state (lines 31-49)
InitialState ==
  [ connected |-> FALSE, state |-> "DISCONNECTED", hasQR |-> FALSE,
    currentQRCode |-> NULL, qrExpiresAt |-> NoDate,
    socket |-> NULL, isInitializing |-> FALSE, initializationPromise |-> NULL,
    qrCodePromise |-> NULL, qrCodeResolver |-> NULL,
    reconnectTimer |-> NULL, reconnectAttempts |-> 0, isCleaningUp |-> FALSE,
    timers |-> {} ]

\* if (reconnectTimer) { clearTimeout(reconnectTimer); reconnectTimer = null }
ClearReconnectTimer(gg) ==
  IF gg.reconnectTimer # NULL
    THEN [gg EXCEPT !.timers = @ \ {gg.reconnectTimer}, !.reconnectTimer = NULL]
    ELSE gg

\* the block that forces the cached state to CONNECTED (lines 74-85, 129-143,
\* 156-167, 865-876)
MarkConnected(gg) ==
  [ClearReconnectTimer(gg) EXCEPT
     !.connected = TRUE, !.state = "CONNECTED", !.hasQR = FALSE,
     !.currentQRCode = NULL, !.qrExpiresAt = NoDate,
     !.qrCodePromise = NULL, !.qrCodeResolver = NULL,
     !.reconnectAttempts = 0]

MarkDisconnected(gg) == [gg EXCEPT !.connected = FALSE, !.state = "DISCONNECTED"]

\* !!(socket as any).user
HasUser(ss, s) == ss[s].user

\* a forceSyncState that treats a socket it cannot probe as disconnected
forceSyncStateFaultDrops(gg, ss, thr) ==
  IF gg.socket # NULL
    THEN IF thr THEN MarkDisconnected(gg)
         ELSE IF HasUser(ss, gg.socket)
           THEN IF ~gg.connected \/ gg.state # "CONNECTED" THEN MarkConnected(gg) ELSE gg
           ELSE IF gg.connected /\ gg.state = "CONNECTED" THEN MarkDisconnected(gg) ELSE gg
    ELSE IF gg.connected THEN MarkDisconnected(gg) ELSE gg

\* forceSyncState() (lines 60-107); thr: reading the user field of the socket
\* throws, and the catch only logs (lines 95-98)
forceSyncStateProbe(gg, ss, thr) ==
  IF gg.socket # NULL
    THEN IF thr THEN gg
         ELSE IF HasUser(ss, gg.socket)
           THEN IF ~gg.connected \/ gg.state # "CONNECTED" THEN MarkConnected(gg) ELSE gg
           ELSE IF gg.connected /\ gg.state = "CONNECTED" THEN MarkDisconnected(gg) ELSE gg
    ELSE IF gg.connected THEN MarkDisconnected(gg) ELSE gg

\* forceSyncState() on a socket whose user field can be read
forceSyncState(gg, ss) == forceSyncStateProbe(gg, ss, FALSE)

\* the expiry check of getWhatsAppStatus (lines 194-202)
ExpireQR(gg) ==
  IF gg.qrExpiresAt # NoDate /\ NowAfter(gg.qrExpiresAt)
    THEN [gg EXCEPT !.currentQRCode = NULL, !.qrExpiresAt = NoDate, !.hasQR = FALSE,
                    !.state = IF @ = "QR_READY" THEN "DISCONNECTED" ELSE @]
    ELSE gg

\* getWhatsAppStatus(): the module state it leaves; the status it returns is
\* the connected, state, hasQR and currentQRCode fields of that state.
\* thr1, thr2: the read of the user field throws in forceSyncState, and in
\* getWhatsAppStatus itself, where the catch only logs (lines 169-175)
getWhatsAppStatusProbe(gg, ss, thr1, thr2) ==
  LET g1 == forceSyncStateProbe(gg, ss, thr1)
      drop(a) == [a EXCEPT !.connected = FALSE,
                           !.state = IF @ = "CONNECTED" THEN "DISCONNECTED" ELSE @]
      g2 == IF g1.socket # NULL
              THEN IF thr2 THEN g1
                   ELSE LET u == HasUser(ss, g1.socket) IN
                   IF u /\ ~g1.connected THEN MarkConnected(g1)
                   ELSE IF ~u /\ g1.connected /\ g1.state = "CONNECTED" THEN drop(g1)
                   ELSE IF u /\ g1.state = "CONNECTING" THEN MarkConnected(g1)
                   ELSE g1
              ELSE ClearReconnectTimer(IF g1.connected THEN drop(g1) ELSE g1)
  IN ExpireQR(g2)

\* getWhatsAppStatus() on a socket whose user field can be read
getWhatsAppStatus(gg, ss) == getWhatsAppStatusProbe(gg, ss, FALSE, FALSE)

\* the cache test of generateQRCode (lines 468, 525)
CacheValid(gg) ==
  gg.currentQRCode # NULL /\ gg.qrExpiresAt # NoDate /\ NowBefore(gg.qrExpiresAt)

\* min(INITIAL_RECONNECT_DELAY * 2^attempts, 60000) (lines 376-379)
ReconnectDelay(n) == Min(INITIAL_RECONNECT_DELAY * Pow2(n), MAX_RECONNECT_DELAY)

\* shouldReconnect (line 340)
ShouldReconnect(cause, n) ==
  cause # LOGGED_OUT /\ cause # CONFLICT /\ n < MAX_RECONNECT_ATTEMPTS


\* ---- sessions of the transport (Baileys sockets)
\* life: none (not created), attached (created, listeners on), detached
\*       (listeners removed by cleanupSocket), ended (end() was called)
\* ph:   init (handshake), open (it emitted 'open'), closed (it emitted 'close')
NoSession == [life |-> "none", user |-> FALSE, ph |-> "init"]
\* a socket after end(): it holds no identity and emits nothing
Ended == [life |-> "ended", user |-> FALSE, ph |-> "closed"]
\* a socket whose end() threw: its listeners are removed and the reference to
\* it is dropped, so nothing reads it again
Unended == [life |-> "unended", user |-> FALSE, ph |-> "closed"]
Sessions == DOMAIN sess
Alive(s) == sess[s].life \in {"attached", "detached"}
CanEmit(s) == sess[s].life = "attached" /\ sess[s].ph # "closed"
FreeSessions == {s \in Sessions : sess[s].life = "none"}
NewSession == CHOOSE s \in FreeSessions : \A r \in FreeSessions : s <= r

\* socketToCleanup.ev.removeAllListeners(...) (lines 251-252)
Detach(ss, s) == [ss EXCEPT ![s].life = IF @ = "attached" THEN "detached" ELSE @]

\* ---- values handed back by calls
Val(res, qr, e) == [res |-> res, qrCode |-> qr, expiresIn |-> e]
NoRv == Val("none", NULL, 0)
Returned(op, v) == [op |-> op, res |-> v.res, qrCode |-> v.qrCode, expiresIn |-> v.expiresIn]
NoRet == Returned("none", NoRv)

\* ---- call stacks: the head of a stack is the call that is executing
Frame(fn, pc, x, y) == [fn |-> fn, pc |-> pc, x |-> x, y |-> y]
\* a call at its entry; generateQRCode computes expirationTime there (line 458)
Entry(fn) == Frame(fn, "start", NULL, IF fn = "genQR" THEN FreshExpiry ELSE NULL)
Tasks == DOMAIN tasks
Busy(t) == tasks[t] # <<>>
Top(t) == Head(tasks[t])
At(t, fn, pc) == Busy(t) /\ Top(t).fn = fn /\ Top(t).pc = pc
\* a caller whose synchronous code is executing (holds the event loop)
Runs(t, fn, pc) == running = t /\ At(t, fn, pc)
\* a caller suspended at an await whose promise has settled: its continuation
\* is a microtask
Waits(t, fn, pc) == running = NULL /\ At(t, fn, pc)
\* the promise awaited at (fn, pc), kept in x, has settled
Ready(t) ==
  /\ Busy(t)
  /\ \/ Top(t).fn = "init" /\ Top(t).pc = "awaitInit" /\ bodies[Top(t).x].pc \in {"ok", "err"}
     \/ Top(t).fn = "genQR" /\ Top(t).pc = "awaitInitP" /\ bodies[Top(t).x].pc \in {"ok", "err"}
     \/ Top(t).fn = "genQR" /\ Top(t).pc = "race" /\ qrp[Top(t).x] > 0
     \/ Top(t).fn = "reconnect" /\ Top(t).pc = "race" /\ bodies[Top(t).x].pc \in {"ok", "err"}
\* the event loop is idle and no microtask is queued: a timer, an I/O
\* completion, a transport event or a request may run
Quiet == running = NULL /\ \A t \in Tasks : ~Ready(t)
\* a caller suspended at a timer or at an I/O completion
Sleeps(t, fn, pc) == Quiet /\ At(t, fn, pc)
FreeTasks == {t \in Tasks : ~Busy(t)}
NewTask == CHOOSE t \in FreeTasks : \A r \in FreeTasks : t <= r

\* the executing call of t moves to pc and goes on running
Continue(t, pc) ==
  /\ tasks' = [tasks EXCEPT ![t][1].pc = pc, ![t][1].x = NULL]
  /\ running' = t /\ rv' = NoRv /\ ret' = NoRet
\* the executing call of t suspends at the await pc
Suspend(t, pc, x) ==
  /\ tasks' = [tasks EXCEPT ![t][1].pc = pc, ![t][1].x = x]
  /\ running' = NULL /\ rv' = NoRv /\ ret' = NoRet
\* the executing call of t calls fn and will resume at pc
Call(t, pc, fn) ==
  /\ tasks' = [tasks EXCEPT ![t] = <<Entry(fn)>> \o
                                   <<[Head(@) EXCEPT !.pc = pc, !.x = NULL]>> \o Tail(@)]
  /\ running' = t /\ rv' = NoRv /\ ret' = NoRet
\* the executing call of t returns v: to its caller, or out of the operation
Finish(t, v) ==
  IF Len(tasks[t]) = 1
    THEN /\ tasks' = [tasks EXCEPT ![t] = <<>>]
         /\ running' = NULL /\ rv' = NoRv /\ ret' = Returned(Top(t).fn, v)
    ELSE /\ tasks' = [tasks EXCEPT ![t] = Tail(@)]
         /\ running' = t /\ rv' = v /\ ret' = NoRet

\* ---- initialization promises
NoBody == [pc |-> "none"]
Inits == DOMAIN bodies
Settled(p) == bodies[p].pc \in {"ok", "err"}
FreeInits == {p \in Inits : bodies[p].pc = "none"}
NewInit == CHOOSE p \in FreeInits : \A r \in FreeInits : p <= r

\* ---- QR promises: one per initialization, one per caller that makes its own
QrPromises == DOMAIN qrp
FreeQrPromises == {q \in QrPromises : qrp[q] = Past}
NewQrPromise == CHOOSE q \in FreeQrPromises : \A r \in FreeQrPromises : q <= r
FreeQr == {p \in DOMAIN qrs : qrs[p] = NULL}
NewQr == CHOOSE p \in FreeQr : \A r \in FreeQr : p <= r

\* ---- cleanupSocket, synchronous part (lines 226-256)
Idle == [pc |-> "idle", sock |-> NULL, owner |-> NULL]
\* a cleanupSocket that tears a socket down whether or not a cleanup is in progress
CleanupStartsUnguarded(gg) == gg.socket # NULL
CleanupStarts(gg) == ~gg.isCleaningUp /\ gg.socket # NULL
CleanupBegin(gg) == ClearReconnectTimer([gg EXCEPT !.isCleaningUp = TRUE])
\* cleanupSocket() called on module state gg by caller o (NULL: not awaited)
AfterCleanupCall(gg) == IF CleanupStarts(gg) THEN CleanupBegin(gg) ELSE gg
CleanupCall(gg, o) ==
  IF CleanupStarts(gg)
    THEN /\ sess' = Detach(sess, gg.socket)
         /\ cl' = [pc |-> "busy", sock |-> gg.socket, owner |-> o]
    ELSE UNCHANGED <<sess, cl>>

\* where the caller of an awaited cleanupSocket() goes on (lines 787, 690)
AfterCleanup(fn) == IF fn = "init" THEN "sleep500" ELSE "sleep1"

\* an end of cleanupSocket without the finally: the flag stays set
CleanupEndsFlagLeft(gg) == [gg EXCEPT !.socket = NULL]
\* the end of cleanupSocket (lines 279-288): socket = null on the normal path
\* and in the outer catch, isCleaningUp = false in the finally
CleanupEnds(gg) == [gg EXCEPT !.socket = NULL, !.isCleaningUp = FALSE]

\* cleanupSocket, after the 100 ms wait (lines 259-288): logout() and end(),
\* each of which may throw and is caught, then socket = null and
\* isCleaningUp = false; its awaiting caller starts its sleep
CleanupFinish(logoutOk, endOk) ==
  /\ Quiet /\ cl.pc = "busy"
  /\ sess' = [sess EXCEPT ![cl.sock] = IF endOk THEN Ended ELSE Unended]
  /\ g' = CleanupEnds(g)
  /\ cl' = Idle
  /\ tasks' = IF cl.owner # NULL
                THEN [tasks EXCEPT ![cl.owner][1].pc = AfterCleanup(tasks[cl.owner][1].fn)]
                ELSE tasks
  /\ ret' = NoRet
  /\ UNCHANGED <<running, rv, bodies, encoding, qrp, qrs, calls, hist, lim>>


\* ---- handleConnectionUpdate (lines 294-449), one action per kind of update
Causes == {LOGGED_OUT, CONFLICT, CONNECTION_CLOSED}
TimerIds == 1..lim.timers
FreeTimers == TimerIds \ g.timers
\* setTimeout(..., delay): the handle of the new timer
NewTimer(gg) == CHOOSE t \in TimerIds \ gg.timers :
                  \A r \in TimerIds \ gg.timers : t <= r

\* lines 352-366: cancel the timer, mark disconnected, clear the QR state
CloseClears(gg) ==
  [ClearReconnectTimer(gg) EXCEPT
     !.connected = FALSE, !.state = "DISCONNECTED", !.hasQR = FALSE,
     !.currentQRCode = NULL, !.qrExpiresAt = NoDate,
     !.qrCodePromise = NULL, !.qrCodeResolver = NULL]

\* lines 374-421: schedule the auto-reconnect, or give up
CloseSchedules(gg, should) ==
  IF should
    THEN [gg EXCEPT !.reconnectAttempts = @ + 1, !.state = "CONNECTING",
                    !.reconnectTimer = NewTimer(gg),
                    !.timers = @ \cup {NewTimer(gg)}]
    ELSE [gg EXCEPT !.reconnectAttempts = 0]

\* the whole 'close' branch on module state gg
HandleClose(gg, cause) ==
  CloseSchedules(AfterCleanupCall(CloseClears(gg)),
                 ShouldReconnect(cause, gg.reconnectAttempts))

\* the 'open' branch (lines 422-444)
HandleOpen(gg) ==
  [ClearReconnectTimer(gg) EXCEPT
     !.reconnectAttempts = 0,
     !.connected = TRUE, !.state = "CONNECTED", !.hasQR = FALSE,
     !.currentQRCode = NULL, !.qrExpiresAt = NoDate,
     !.qrCodePromise = NULL, !.qrCodeResolver = NULL]

\* the qr branch, synchronous part (lines 297-306): resolve the waiting promise
HandleQR(gg) == [gg EXCEPT !.qrCodeResolver = NULL]

\* the qr branch, when QRCode.toDataURL resolves (lines 318-324)
StoreQR(gg, p) ==
  [gg EXCEPT !.currentQRCode = ToDataURL(p), !.qrExpiresAt = FreshExpiry,
             !.hasQR = TRUE, !.state = "QR_READY"]

\* the history of the auto-reconnect schedule, kept when the scenario asks
\* for it (lim.hist): streak counts the
\* closes handled in a row since the last 'open', manual reconnect or terminal
\* close; n is the counter the last close read and delay the delay it
\* scheduled (0: none); term holds from a terminal close to the next call of a
\* public operation
NoHist == [streak |-> 0, n |-> 0, delay |-> 0, term |-> FALSE]
Track(h) == IF lim.hist THEN h ELSE NoHist
HistClose(h, gg, cause) ==
  IF cause \in {LOGGED_OUT, CONFLICT}
    THEN [streak |-> 0, n |-> gg.reconnectAttempts, delay |-> 0, term |-> TRUE]
    ELSE [streak |-> Min(h.streak + 1, MAX_RECONNECT_ATTEMPTS + 1),
          n |-> gg.reconnectAttempts,
          delay |-> IF ShouldReconnect(cause, gg.reconnectAttempts)
                      THEN ReconnectDelay(gg.reconnectAttempts) ELSE 0,
          term |-> FALSE]

\* the transport emits { connection: 'close', lastDisconnect } on session s
EvClose(s, cause) ==
  /\ Quiet /\ CanEmit(s)
  /\ ShouldReconnect(cause, g.reconnectAttempts) =>
       TimerIds \ AfterCleanupCall(CloseClears(g)).timers # {}
  /\ g' = HandleClose(g, cause)
  /\ LET gc == CloseClears(g)
         ss == IF CleanupStarts(gc) THEN Detach(sess, gc.socket) ELSE sess
     IN /\ sess' = [ss EXCEPT ![s].ph = "closed",
                              ![s].user = IF cause = LOGGED_OUT THEN FALSE ELSE @]
        /\ cl' = IF CleanupStarts(gc)
                   THEN [pc |-> "busy", sock |-> gc.socket, owner |-> NULL]
                   ELSE cl
  /\ hist' = Track(HistClose(hist, g, cause))
  /\ ret' = NoRet
  /\ UNCHANGED <<tasks, running, rv, bodies, encoding, qrp, qrs, calls, lim>>

\* the transport emits { connection: 'open' } on session s
EvOpen(s) ==
  /\ Quiet /\ CanEmit(s) /\ sess[s].ph = "init"
  /\ g' = HandleOpen(g)
  /\ sess' = [sess EXCEPT ![s].ph = "open", ![s].user = TRUE]
  /\ hist' = NoHist
  /\ ret' = NoRet
  /\ UNCHANGED <<tasks, running, rv, bodies, cl, encoding, qrp, qrs, calls, lim>>

\* the transport emits { connection: 'connecting' } on session s
EvConnecting(s) ==
  /\ Quiet /\ CanEmit(s) /\ sess[s].ph = "init"
  /\ g.state # "CONNECTING"
  /\ g' = [g EXCEPT !.state = "CONNECTING"]
  /\ ret' = NoRet
  /\ UNCHANGED <<sess, tasks, running, rv, bodies, cl, encoding, qrp, qrs, calls, hist, lim>>

\* the transport emits { qr } on session s
EvQR(s) ==
  /\ Quiet /\ CanEmit(s) /\ sess[s].ph = "init"
  /\ FreeQr # {}
  /\ g' = HandleQR(g)
  /\ qrp' = IF g.qrCodeResolver # NULL
              THEN [qrp EXCEPT ![g.qrCodeResolver] = NewQr] ELSE qrp
  /\ encoding' = encoding \cup {NewQr}
  /\ qrs' = [qrs EXCEPT ![NewQr] = s]
  /\ ret' = NoRet
  /\ UNCHANGED <<sess, tasks, running, rv, bodies, cl, calls, hist, lim>>

\* the handler's QRCode.toDataURL(qr) settles: .then stores the image,
\* .catch only logs
EncodeDone(p, ok) ==
  /\ Quiet /\ p \in encoding
  /\ encoding' = encoding \ {p}
  /\ g' = IF ok THEN StoreQR(g, p) ELSE g
  /\ ret' = NoRet
  /\ UNCHANGED <<sess, tasks, running, rv, bodies, cl, qrp, qrs, calls, hist, lim>>

\* the session authenticates without an 'open' event being delivered
\* (saved credentials): its user field becomes present
SessionAuth(s) ==
  /\ Quiet /\ Alive(s) /\ sess[s].ph = "init" /\ ~sess[s].user
  /\ sess' = [sess EXCEPT ![s].user = TRUE]
  /\ ret' = NoRet
  /\ UNCHANGED <<g, tasks, running, rv, bodies, cl, encoding, qrp, qrs, calls, hist, lim>>

\* the session loses its identity without a 'close' event being delivered
IdentityLost(s) ==
  /\ Quiet /\ Alive(s) /\ sess[s].ph # "closed" /\ sess[s].user
  /\ sess' = [sess EXCEPT ![s].user = FALSE]
  /\ ret' = NoRet
  /\ UNCHANGED <<g, tasks, running, rv, bodies, cl, encoding, qrp, qrs, calls, hist, lim>>

\* ---- the clock
ElapseFrame(f) == IF f.fn = "genQR" THEN [f EXCEPT !.y = Elapse(@)] ELSE f
ElapseStack(st) == [i \in DOMAIN st |-> ElapseFrame(st[i])]
Tick ==
  /\ Quiet
  /\ g' = [g EXCEPT !.qrExpiresAt = Elapse(@)]
  /\ tasks' = [t \in Tasks |-> ElapseStack(tasks[t])]
  /\ (g' # g \/ tasks' # tasks)
  /\ ret' = NoRet
  /\ UNCHANGED <<sess, running, rv, bodies, cl, encoding, qrp, qrs, calls, hist, lim>>

\* ---- getStatus: the public, synchronous status read
GetStatus ==
  /\ Quiet
  /\ g' = getWhatsAppStatus(g, sess)
  /\ g' # g
  /\ ret' = NoRet
  /\ UNCHANGED <<sess, tasks, running, rv, bodies, cl, encoding, qrp, qrs, calls, hist, lim>>

VoidOk == Val("ok", NULL, 0)

\* getStatus on a socket whose user field throws when read, in forceSyncState
\* (thr1) or in getWhatsAppStatus (thr2): the call returns a status
GetStatusFault(thr1, thr2) ==
  /\ Quiet /\ g.socket # NULL /\ (thr1 \/ thr2)
  /\ g' = getWhatsAppStatusProbe(g, sess, thr1, thr2)
  /\ ret' = Returned("getStatus", VoidOk)
  /\ UNCHANGED <<sess, tasks, running, rv, bodies, cl, encoding, qrp, qrs, calls, hist, lim>>

\* ---- initializeWhatsApp (lines 725-905)
Failed == Val("err", NULL, 0)

\* lines 795-904: the double check, then isInitializing = true and the promise
\* whose body runs up to its first await; the call returns that promise
InitCreate(t, gg) ==
  IF gg.socket # NULL
    THEN g' = gg /\ Finish(t, VoidOk) /\ UNCHANGED <<sess, cl, bodies>>
    ELSE /\ FreeInits # {}
         /\ g' = [gg EXCEPT !.isInitializing = TRUE, !.initializationPromise = NewInit]
         /\ bodies' = [bodies EXCEPT ![NewInit] = [pc |-> "load"]]
         /\ Suspend(t, "awaitInit", NewInit)
         /\ UNCHANGED <<sess, cl>>

\* lines 767-793: cancel the timer, then leave a handshake alone or clean up a
\* socket in state DISCONNECTED
InitProceed(t, gg) ==
  LET g1 == ClearReconnectTimer(gg) IN
  IF g1.socket # NULL /\ ~g1.connected
    THEN IF g1.state = "DISCONNECTED"
           THEN /\ g' = AfterCleanupCall(g1)
                /\ CleanupCall(g1, t)
                /\ Suspend(t, IF CleanupStarts(g1) THEN "awaitClean" ELSE "sleep500", NULL)
                /\ UNCHANGED bodies
           ELSE g' = g1 /\ Finish(t, VoidOk) /\ UNCHANGED <<sess, cl, bodies>>
    ELSE InitCreate(t, g1)

\* lines 732-765: the early returns of initializeWhatsApp
InitStart(t) ==
  /\ Runs(t, "init", "start")
  /\ IF g.socket # NULL /\ (HasUser(sess, g.socket) \/ g.connected)
       THEN /\ g' = ClearReconnectTimer(g) /\ Finish(t, VoidOk)
            /\ UNCHANGED <<sess, cl, bodies>>
       ELSE IF g.isInitializing /\ g.initializationPromise # NULL
         THEN /\ Suspend(t, "awaitInit", g.initializationPromise)
              /\ UNCHANGED <<g, sess, cl, bodies>>
         ELSE IF g.isCleaningUp
           THEN Suspend(t, "waitClean", NULL) /\ UNCHANGED <<g, sess, cl, bodies>>
           ELSE InitProceed(t, g)
  /\ UNCHANGED <<encoding, qrp, qrs, calls, hist, lim>>

\* lines 758-765: the wait for a cleanup in progress ends (isCleaningUp fell,
\* or 50 waits of 100 ms passed)
InitWaitClean(t) ==
  /\ Sleeps(t, "init", "waitClean")
  /\ InitProceed(t, g)
  /\ UNCHANGED <<encoding, qrp, qrs, calls, hist, lim>>

\* line 787: the 500 ms after the awaited cleanup have passed
InitSleep500(t) ==
  /\ Sleeps(t, "init", "sleep500")
  /\ InitCreate(t, g)
  /\ UNCHANGED <<encoding, qrp, qrs, calls, hist, lim>>

\* the promise initializeWhatsApp returned settles: the call returns or throws
InitAwait(t) ==
  /\ Waits(t, "init", "awaitInit") /\ Settled(Top(t).x)
  /\ Finish(t, IF bodies[Top(t).x].pc = "ok" THEN VoidOk ELSE Failed)
  /\ UNCHANGED <<g, sess, bodies, cl, encoding, qrp, qrs, calls, hist, lim>>

\* the body of the initialization promise, lines 806-853: the auth state and
\* the version are loaded, then the QR promise and the socket are created and
\* the listeners attached; or one of these throws (lines 892-901)
CreateSocket(gg, q, s) ==
  [gg EXCEPT !.qrCodePromise = q, !.qrCodeResolver = q, !.socket = s,
             !.state = "CONNECTING"]
\* a catch that leaves the initialization flag set
InitFailsFlagLeft(gg) ==
  [gg EXCEPT !.state = "DISCONNECTED", !.socket = NULL, !.qrCodePromise = NULL,
             !.qrCodeResolver = NULL]
InitFails(gg) ==
  [gg EXCEPT !.state = "DISCONNECTED", !.socket = NULL, !.qrCodePromise = NULL,
             !.qrCodeResolver = NULL, !.isInitializing = FALSE]
BodyLoad(p, ok) ==
  /\ Quiet /\ bodies[p].pc = "load"
  /\ IF ok
       THEN /\ FreeSessions # {} /\ FreeQrPromises # {}
            /\ g' = CreateSocket(g, NewQrPromise, NewSession)
            /\ qrp' = [qrp EXCEPT ![NewQrPromise] = NULL]
            /\ sess' = [sess EXCEPT ![NewSession] =
                          [life |-> "attached", user |-> FALSE, ph |-> "init"]]
            /\ bodies' = [bodies EXCEPT ![p].pc = "sleep"]
       ELSE /\ g' = InitFails(g)
            /\ bodies' = [bodies EXCEPT ![p].pc = "err"]
            /\ UNCHANGED <<qrp, sess>>
  /\ ret' = NoRet
  /\ UNCHANGED <<tasks, running, rv, cl, encoding, qrs, calls, hist, lim>>

\* lines 859-901: the post-creation poll of the socket's user field, one
\* iteration per step; last: the iteration count ran out
PollSync(gg, ss) ==
  IF gg.socket # NULL /\ HasUser(ss, gg.socket) /\ ~gg.connected
    THEN MarkConnected(gg) ELSE gg
PollAgain(gg, ss, first) ==
  IF gg.socket = NULL THEN ~first /\ ~gg.connected
  ELSE ~HasUser(ss, gg.socket) /\ ~gg.connected
BodyPoll(p, last) ==
  /\ Quiet /\ bodies[p].pc \in {"sleep", "poll"}
  /\ last => bodies[p].pc = "poll"
  /\ IF PollAgain(g, sess, bodies[p].pc = "sleep") /\ ~last
       THEN /\ bodies[p].pc = "sleep"
            /\ bodies' = [bodies EXCEPT ![p].pc = "poll"]
            /\ g' = g
       ELSE /\ bodies' = [bodies EXCEPT ![p].pc = "ok"]
            /\ g' = [PollSync(g, sess) EXCEPT !.isInitializing = FALSE]
  /\ ret' = NoRet
  /\ UNCHANGED <<sess, tasks, running, rv, cl, encoding, qrp, qrs, calls, hist, lim>>

\* ---- the auto-reconnect timer callback (lines 386-411)
TimerSkips(gg) == gg.connected \/ gg.socket # NULL
TimerCancelled(gg) == [gg EXCEPT !.reconnectTimer = NULL, !.reconnectAttempts = 0]
TimerFire(tm) ==
  /\ Quiet /\ tm \in g.timers
  /\ LET g1 == getWhatsAppStatus([g EXCEPT !.timers = @ \ {tm}], sess) IN
     IF TimerSkips(g1)
       THEN /\ g' = TimerCancelled(g1)
            /\ UNCHANGED <<tasks, running>>
       ELSE /\ FreeTasks # {}
            /\ g' = g1
            /\ tasks' = [tasks EXCEPT ![NewTask] =
                           <<Entry("init"),
                             Frame("timerCb", "afterInit", NULL, NULL)>>]
            /\ running' = NewTask
  /\ ret' = NoRet
  /\ UNCHANGED <<sess, rv, bodies, cl, encoding, qrp, qrs, calls, hist, lim>>

\* lines 398-410: after await initializeWhatsApp()
TimerDone(gg, res) ==
  [gg EXCEPT !.reconnectAttempts =
               IF res = "ok" THEN 0
               ELSE IF @ >= MAX_RECONNECT_ATTEMPTS THEN 0 ELSE @,
             !.reconnectTimer = NULL]
TimerAfterInit(t) ==
  /\ Runs(t, "timerCb", "afterInit")
  /\ g' = TimerDone(g, rv.res)
  /\ Finish(t, rv)
  /\ UNCHANGED <<sess, bodies, cl, encoding, qrp, qrs, calls, hist, lim>>


\* ---- generateQRCode (lines 456-655)
\* a status check that never finds the client connected
StatusNeverConnected(st) == FALSE
\* currentStatus.connected (line 463; route.ts line 33)
StatusConnected(st) == st.connected
AlreadyConnected == Val("AlreadyConnected", NULL, 0)
NotReady == Val("NotReady", NULL, 0)
InitFailed == Val("InitFailed", NULL, 0)
\* qrExpiresAt ? Math.max(0, Math.floor(...)) : 60   (lines 584-586)
RemainingOr60(gg) ==
  IF gg.qrExpiresAt # NoDate THEN RemainingSeconds(gg.qrExpiresAt) ELSE QR_VALIDITY_SECONDS
\* the early cache hit (lines 468-474, 525-530)
CacheHit(gg) == Val("ok", gg.currentQRCode, RemainingSeconds(gg.qrExpiresAt))
\* the stored code returned as expired (lines 533-538, 626-632)
ExpiredHit(gg) == Val("ok", gg.currentQRCode, 0)
\* the stored code returned from the polling loop (lines 581-588, 644-651)
PollHit(gg) == Val("ok", gg.currentQRCode, RemainingOr60(gg))

\* lines 619-654: the final checks
GenFinal(t, gg) ==
  LET g1 == getWhatsAppStatus(gg, sess) IN
  /\ g' = g1
  /\ IF StatusConnected(g1) THEN Finish(t, AlreadyConnected)
     ELSE IF g1.currentQRCode # NULL THEN Finish(t, ExpiredHit(g1))
     ELSE IF g1.socket # NULL /\ g1.state = "CONNECTING" THEN Suspend(t, "last", NULL)
     ELSE Finish(t, NotReady)

\* lines 574-617: enter the polling loop when CONNECTING, else the final checks
GenPollOrFinal(t, gg) ==
  IF gg.state = "CONNECTING"
    THEN g' = gg /\ Suspend(t, "poll", NULL)
    ELSE GenFinal(t, gg)

\* lines 456-492: status check, early cache hit, initialization when no socket
GenStart(t) ==
  /\ Runs(t, "genQR", "start")
  /\ LET g1 == getWhatsAppStatus(g, sess) IN
     /\ g' = g1
     /\ IF StatusConnected(g1) THEN Finish(t, AlreadyConnected)
        ELSE IF CacheValid(g1) THEN Finish(t, CacheHit(g1))
        ELSE IF g1.socket = NULL
          THEN IF g1.initializationPromise # NULL
                 THEN Suspend(t, "awaitInitP", g1.initializationPromise)
                 ELSE Call(t, "afterInit", "init")
          ELSE Continue(t, "ensure")
  /\ UNCHANGED <<sess, bodies, cl, encoding, qrp, qrs, calls, hist, lim>>

\* lines 483-489: the awaited initializationPromise settles
GenAwaitInitP(t) ==
  /\ Waits(t, "genQR", "awaitInitP") /\ Settled(Top(t).x)
  /\ IF bodies[Top(t).x].pc = "ok"
       THEN IF g.socket # NULL THEN Continue(t, "ensure")
            ELSE Suspend(t, "waitSock", NULL)
       ELSE Call(t, "afterInit", "init")
  /\ UNCHANGED <<g, sess, bodies, cl, encoding, qrp, qrs, calls, hist, lim>>

\* lines 488, 491: await initializeWhatsApp() returned or threw
GenAfterInit(t) ==
  /\ Runs(t, "genQR", "afterInit")
  /\ IF rv.res = "err" THEN Finish(t, InitFailed)
     ELSE IF g.socket # NULL THEN Continue(t, "ensure")
     ELSE Suspend(t, "waitSock", NULL)
  /\ UNCHANGED <<g, sess, bodies, cl, encoding, qrp, qrs, calls, hist, lim>>

\* lines 495-499: the wait for the socket ends (it exists, or 20 waits passed)
GenWaitSock(t) ==
  /\ Sleeps(t, "genQR", "waitSock")
  /\ Continue(t, "ensure")
  /\ UNCHANGED <<g, sess, bodies, cl, encoding, qrp, qrs, calls, hist, lim>>

\* lines 502-572, up to the wait for the QR promise
GenEnsure(t) ==
  /\ Runs(t, "genQR", "ensure")
  /\ IF g.socket = NULL
       THEN g' = g /\ qrp' = qrp /\ Finish(t, NotReady)
       ELSE LET mk == g.qrCodePromise = NULL /\ ~g.connected
                g1 == IF mk THEN [g EXCEPT !.qrCodePromise = NewQrPromise,
                                           !.qrCodeResolver = NewQrPromise]
                      ELSE g
                g2 == getWhatsAppStatus(g1, sess)
            IN /\ mk => FreeQrPromises # {}
               /\ qrp' = IF mk THEN [qrp EXCEPT ![NewQrPromise] = NULL] ELSE qrp
               /\ IF g2.connected THEN g' = g2 /\ Finish(t, AlreadyConnected)
                  ELSE IF g2.state \in {"CONNECTING", "QR_READY"}
                    THEN IF CacheValid(g2) THEN g' = g2 /\ Finish(t, CacheHit(g2))
                         ELSE IF g2.currentQRCode # NULL
                           THEN g' = g2 /\ Finish(t, ExpiredHit(g2))
                         ELSE IF g2.qrCodePromise # NULL
                           THEN g' = g2 /\ Suspend(t, "race", g2.qrCodePromise)
                         ELSE GenPollOrFinal(t, g2)
                    ELSE GenFinal(t, g2)
  /\ UNCHANGED <<sess, bodies, cl, encoding, qrs, calls, hist, lim>>

\* line 544: the QR promise won the race; QRCode.toDataURL is awaited
GenRaceResolved(t) ==
  /\ Waits(t, "genQR", "race") /\ qrp[Top(t).x] > 0
  /\ Suspend(t, "encode", qrp[Top(t).x])
  /\ UNCHANGED <<g, sess, bodies, cl, encoding, qrp, qrs, calls, hist, lim>>

\* a race without its 30 s timeout
GenRaceNoTimeout(t) ==
  /\ Sleeps(t, "genQR", "race") /\ FALSE
  /\ UNCHANGED vars

\* lines 546-548, 568-571: the 30 s timeout won the race
GenRaceTimeout(t) ==
  /\ Sleeps(t, "genQR", "race")
  /\ GenPollOrFinal(t, g)
  /\ UNCHANGED <<sess, bodies, cl, encoding, qrp, qrs, calls, hist, lim>>

\* lines 561-567: the caller stores the image it encoded, under the
\* expirationTime it computed on entry, and returns it
StoreOwnQR(gg, p, exp) == [gg EXCEPT !.currentQRCode = ToDataURL(p), !.qrExpiresAt = exp]
OwnQR(p) == Val("ok", ToDataURL(p), QR_VALIDITY_SECONDS)
GenEncode(t, ok) ==
  /\ Sleeps(t, "genQR", "encode")
  /\ IF ok THEN g' = StoreOwnQR(g, Top(t).x, Top(t).y) /\ Finish(t, OwnQR(Top(t).x))
     ELSE GenPollOrFinal(t, g)
  /\ UNCHANGED <<sess, bodies, cl, encoding, qrp, qrs, calls, hist, lim>>

\* lines 578-615: one iteration of the polling loop; last: it was the tenth
GenPoll(t, last) ==
  /\ Sleeps(t, "genQR", "poll")
  /\ IF g.currentQRCode # NULL THEN g' = g /\ Finish(t, PollHit(g))
     ELSE LET g1 == getWhatsAppStatus(g, sess) IN
          IF g1.connected THEN g' = g1 /\ Finish(t, AlreadyConnected)
          ELSE IF last THEN GenFinal(t, g1)
          ELSE g' = g1 /\ Suspend(t, "poll", NULL)
  /\ UNCHANGED <<sess, bodies, cl, encoding, qrp, qrs, calls, hist, lim>>

\* lines 637-654: after the last 3 s wait
GenLast(t) ==
  /\ Sleeps(t, "genQR", "last")
  /\ LET g1 == getWhatsAppStatus(g, sess) IN
     /\ g' = g1
     /\ IF StatusConnected(g1) THEN Finish(t, AlreadyConnected)
        ELSE IF g1.currentQRCode # NULL THEN Finish(t, PollHit(g1))
        ELSE Finish(t, NotReady)
  /\ UNCHANGED <<sess, bodies, cl, encoding, qrp, qrs, calls, hist, lim>>


\* ---- GET /api/whatsapp/qr (app/api/whatsapp/qr/route.ts)
\* lines 44-56: the cached code is answered with expiresIn: 60
RouteHit(gg) == Val("ok", gg.currentQRCode, QR_VALIDITY_SECONDS)
RouteStart(t) ==
  /\ Runs(t, "route", "start")
  /\ LET g1 == getWhatsAppStatus(g, sess) IN
     /\ g' = g1
     /\ IF StatusConnected(g1) THEN Finish(t, AlreadyConnected)
        ELSE IF g1.currentQRCode # NULL /\ g1.hasQR THEN Finish(t, RouteHit(g1))
        ELSE Call(t, "afterGen", "genQR")
  /\ UNCHANGED <<sess, bodies, cl, encoding, qrp, qrs, calls, hist, lim>>

\* lines 60-123: the result of generateQRCode, or its error as a response
RouteAfterGen(t) ==
  /\ Runs(t, "route", "afterGen")
  /\ IF rv.res = "AlreadyConnected"
       THEN LET g1 == getWhatsAppStatus(g, sess) IN
            /\ g' = g1
            /\ Finish(t, IF g1.connected THEN AlreadyConnected ELSE Val("Error", NULL, 0))
       ELSE g' = g /\ Finish(t, rv)
  /\ UNCHANGED <<sess, bodies, cl, encoding, qrp, qrs, calls, hist, lim>>

\* ---- reconnectWhatsApp (lines 662-718)
\* line 687: await cleanupSocket()
ReconCleanup(t, gg) ==
  /\ g' = AfterCleanupCall(gg)
  /\ CleanupCall(gg, t)
  /\ Suspend(t, IF CleanupStarts(gg) THEN "awaitClean" ELSE "sleep1", NULL)

\* lines 665-687: cancel the timer, wait for an initialization in flight
ReconStart(t) ==
  /\ Runs(t, "reconnect", "start")
  /\ LET g1 == ClearReconnectTimer(g) IN
     IF g1.isInitializing /\ g1.initializationPromise # NULL
       THEN /\ g' = g1 /\ Suspend(t, "race", g1.initializationPromise)
            /\ UNCHANGED <<sess, cl>>
       ELSE ReconCleanup(t, g1)
  /\ hist' = NoHist
  /\ UNCHANGED <<bodies, encoding, qrp, qrs, calls, lim>>

\* lines 676-683: the initialization settled, or the 2 s timeout won the race
ReconRace(t) ==
  /\ Waits(t, "reconnect", "race") /\ (Ready(t) \/ Quiet)
  /\ ReconCleanup(t, g)
  /\ UNCHANGED <<bodies, encoding, qrp, qrs, calls, hist, lim>>

\* lines 692-704: clear the state
ResetState(gg) ==
  [gg EXCEPT !.connected = FALSE, !.state = "DISCONNECTED", !.hasQR = FALSE,
             !.currentQRCode = NULL, !.qrExpiresAt = NoDate,
             !.qrCodePromise = NULL, !.qrCodeResolver = NULL,
             !.initializationPromise = NULL, !.isInitializing = FALSE,
             !.reconnectAttempts = 0]

\* lines 690-707: after the 1.5 s wait, clear the state and initialize
ReconSleep1(t) ==
  /\ Sleeps(t, "reconnect", "sleep1")
  /\ g' = ResetState(g)
  /\ Call(t, "afterInit", "init")
  /\ UNCHANGED <<sess, bodies, cl, encoding, qrp, qrs, calls, hist, lim>>

\* lines 707-710: await initializeWhatsApp() returned or threw
ReconAfterInit(t) ==
  /\ Runs(t, "reconnect", "afterInit")
  /\ IF rv.res = "err" THEN Finish(t, InitFailed) ELSE Suspend(t, "sleep2", NULL)
  /\ UNCHANGED <<g, sess, bodies, cl, encoding, qrp, qrs, calls, hist, lim>>

\* line 713: after the second 1.5 s wait, generateQRCode()
ReconSleep2(t) ==
  /\ Sleeps(t, "reconnect", "sleep2")
  /\ Call(t, "afterGen", "genQR")
  /\ UNCHANGED <<g, sess, bodies, cl, encoding, qrp, qrs, calls, hist, lim>>

\* line 717: return result
ReconAfterGen(t) ==
  /\ Runs(t, "reconnect", "afterGen")
  /\ Finish(t, rv)
  /\ UNCHANGED <<g, sess, bodies, cl, encoding, qrp, qrs, calls, hist, lim>>

\* ---- the public asynchronous operations are called
\* the callers in flight that are public operations (not timer callbacks)
InFlight == {t \in Tasks : Busy(t) /\ tasks[t][Len(tasks[t])].fn # "timerCb"}
StartOp(op) ==
  /\ Quiet /\ calls < lim.calls /\ FreeTasks # {}
  /\ Cardinality(InFlight) < lim.overlap
  /\ tasks' = [tasks EXCEPT ![NewTask] = <<Entry(op)>>]
  /\ running' = NewTask
  /\ calls' = calls + 1
  /\ ret' = NoRet
  /\ hist' = [hist EXCEPT !.term = FALSE]
  /\ UNCHANGED <<g, sess, rv, bodies, cl, encoding, qrp, qrs, lim>>
CallGetQR == StartOp("route")
CallRequestQR == StartOp("genQR")
CallReconnect == StartOp("reconnect")
CallInitialize == StartOp("init")

\* ---- the system
InitBounded(nSessions, nTasks, nCalls, nOverlap, history, nQr, nTimers) ==
  /\ g = InitialState
  /\ sess = [s \in 1..nSessions |-> NoSession]
  /\ tasks = [t \in 1..nTasks |-> <<>>]
  /\ running = NULL
  /\ rv = NoRv
  /\ bodies = [p \in 1..nSessions |-> NoBody]
  /\ cl = Idle
  /\ encoding = {}
  /\ qrp = [q \in 1..(nSessions + 1) |-> Past]
  /\ qrs = [p \in 1..nQr |-> NULL]
  /\ calls = 0
  /\ ret = NoRet
  /\ hist = NoHist
  /\ lim = [calls |-> nCalls, overlap |-> nOverlap, hist |-> history,
            timers |-> nTimers]
InitFull(nSessions, nTasks, nCalls, nOverlap, history, nQr) ==
  InitBounded(nSessions, nTasks, nCalls, nOverlap, history, nQr, MaxTimers)
InitWith(nSessions, nTasks, nCalls, nOverlap, history) ==
  InitFull(nSessions, nTasks, nCalls, nOverlap, history, MaxQr)

Init == InitWith(MaxSessions, MaxTasks, MaxCalls, MaxOverlap, FALSE)

Transport ==
  \/ \E s \in Sessions, c \in Causes : EvClose(s, c)
  \/ \E s \in Sessions : EvOpen(s)
  \/ \E s \in Sessions : EvConnecting(s)
  \/ \E s \in Sessions : EvQR(s)
  \/ \E p \in DOMAIN qrs, ok \in BOOLEAN : EncodeDone(p, ok)

\* the identity of a session appears or disappears between events
Drift ==
  \/ \E s \in Sessions : SessionAuth(s)
  \/ \E s \in Sessions : IdentityLost(s)

Engine ==
  \/ \E logoutOk \in BOOLEAN : CleanupFinish(logoutOk, TRUE)
  \/ \E p \in Inits, ok \in BOOLEAN : BodyLoad(p, ok)
  \/ \E p \in Inits, last \in BOOLEAN : BodyPoll(p, last)
  \/ \E tm \in TimerIds : TimerFire(tm)
  \/ \E t \in Tasks : TimerAfterInit(t)
  \/ \E t \in Tasks : InitStart(t)
  \/ \E t \in Tasks : InitWaitClean(t)
  \/ \E t \in Tasks : InitSleep500(t)
  \/ \E t \in Tasks : InitAwait(t)

Coordinator ==
  \/ \E t \in Tasks : GenStart(t)
  \/ \E t \in Tasks : GenAwaitInitP(t)
  \/ \E t \in Tasks : GenAfterInit(t)
  \/ \E t \in Tasks : GenWaitSock(t)
  \/ \E t \in Tasks : GenEnsure(t)
  \/ \E t \in Tasks : GenRaceResolved(t)
  \/ \E t \in Tasks : GenRaceTimeout(t)
  \/ \E t \in Tasks, ok \in BOOLEAN : GenEncode(t, ok)
  \/ \E t \in Tasks, last \in BOOLEAN : GenPoll(t, last)
  \/ \E t \in Tasks : GenLast(t)

Manual ==
  \/ \E t \in Tasks : ReconStart(t)
  \/ \E t \in Tasks : ReconRace(t)
  \/ \E t \in Tasks : ReconSleep1(t)
  \/ \E t \in Tasks : ReconAfterInit(t)
  \/ \E t \in Tasks : ReconSleep2(t)
  \/ \E t \in Tasks : ReconAfterGen(t)

Surface ==
  \/ GetStatus
  \/ CallGetQR
  \/ CallRequestQR
  \/ CallReconnect
  \/ CallInitialize
  \/ \E t \in Tasks : RouteStart(t)
  \/ \E t \in Tasks : RouteAfterGen(t)

Next == Transport \/ Engine \/ Coordinator \/ Manual \/ Surface \/ Tick

Spec == Init /\ [][Next]_vars

\* ---- overlapping initialize() and requestQR() callers; sessions end by logout
MaxRaceCalls == 3       \* public operations ever started in SpecRace
MaxRaceOverlap == 2     \* public operations in flight at once in SpecRace
MaxRaceSessions == 3    \* sessions, and initializations, ever created in SpecRace
InitRace == InitWith(MaxRaceSessions, MaxRaceOverlap, MaxRaceCalls, MaxRaceOverlap, FALSE)

Initialization ==
  \/ \E logoutOk \in BOOLEAN : CleanupFinish(logoutOk, TRUE)
  \/ \E p \in Inits, ok \in BOOLEAN : BodyLoad(p, ok)
  \/ \E p \in Inits, last \in BOOLEAN : BodyPoll(p, last)
  \/ \E t \in Tasks : InitStart(t)
  \/ \E t \in Tasks : InitWaitClean(t)
  \/ \E t \in Tasks : InitSleep500(t)
  \/ \E t \in Tasks : InitAwait(t)

NextRace ==
  \/ \E s \in Sessions : EvClose(s, LOGGED_OUT)
  \/ \E s \in Sessions : EvQR(s)
  \/ Initialization
  \/ Coordinator
  \/ CallRequestQR
  \/ CallInitialize

SpecRace == InitRace /\ [][NextRace]_vars

\* ---- a manual reconnect beside initialize(), the auto-reconnect timer and closes
MaxManualTasks == 3     \* callers in flight at once in SpecManual
InitManual == InitWith(MaxSessions, MaxManualTasks, MaxCalls, MaxCalls, FALSE)

NextManual ==
  \/ \E s \in Sessions, c \in Causes : EvClose(s, c)
  \/ \E s \in Sessions : EvQR(s)
  \/ Engine
  \/ Coordinator
  \/ Manual
  \/ CallReconnect
  \/ CallInitialize

SpecManual == InitManual /\ [][NextManual]_vars

\* ---- the auto-reconnect loop: one initialize() at startup, then closes, timers
\* and 'open' events
MaxBackoffCalls == 1    \* public operations ever started in SpecBackoff
InitBackoff == InitWith(BackoffSessions, MaxTasks, MaxBackoffCalls, MaxBackoffCalls, TRUE)

NextBackoff ==
  \/ \E s \in Sessions, c \in Causes : EvClose(s, c)
  \/ \E s \in Sessions : EvOpen(s)
  \/ \E logoutOk \in BOOLEAN : CleanupFinish(logoutOk, TRUE)
  \/ \E p \in Inits, ok \in BOOLEAN : BodyLoad(p, ok)
  \/ \E p \in Inits, last \in BOOLEAN : BodyPoll(p, last)
  \/ \E tm \in TimerIds : TimerFire(tm)
  \/ \E t \in Tasks : TimerAfterInit(t)
  \/ \E t \in Tasks : InitStart(t)
  \/ \E t \in Tasks : InitAwait(t)
  \/ CallInitialize

SpecBackoff == InitBackoff /\ [][NextBackoff]_vars

\* ---- the auto-reconnect loop with a second initialize() call: closes,
\* timers and 'open' events over three sessions
MaxOpenSessions == 3    \* sessions, and initializations, ever created in SpecOpen
MaxOpenCalls == 2       \* public operations ever started in SpecOpen
InitOpen == InitWith(MaxOpenSessions, MaxTasks, MaxOpenCalls, MaxOverlap, FALSE)

SpecOpen == InitOpen /\ [][NextBackoff]_vars

\* ---- the scenario of SpecOpen with room for a second pending timer
MaxStaleTimers == 2     \* auto-reconnect timers pending at once in SpecStale
InitStale ==
  InitBounded(MaxOpenSessions, MaxTasks, MaxOpenCalls, MaxOverlap, FALSE, MaxQr,
              MaxStaleTimers)

SpecStale == InitStale /\ [][NextBackoff]_vars

\* ---- a manual reconnect called while a QR is on display: initialize() at
\* startup, then reconnect() whenever the phase is QR_READY
MaxReconnectQr == 2     \* QR payloads ever emitted in SpecReconnect
InitReconnect == InitFull(MaxSessions, MaxTasks, MaxCalls, MaxOverlap, FALSE, MaxReconnectQr)

NextReconnect ==
  \/ Transport
  \/ Engine
  \/ Coordinator
  \/ Manual
  \/ CallInitialize
  \/ g.state = "QR_READY" /\ CallReconnect
  \/ Tick

SpecReconnect == InitReconnect /\ [][NextReconnect]_vars

\* ---- cleanups whose transport calls fail: initialize() and reconnect()
\* beside transport events and the auto-reconnect timer, with logout() and
\* end() throwing or not
InitCleanup == InitWith(MaxSessions, MaxTasks, MaxCalls, MaxOverlap, FALSE)

NextCleanup ==
  \/ Transport
  \/ \E logoutOk, endOk \in BOOLEAN : CleanupFinish(logoutOk, endOk)
  \/ \E p \in Inits, ok \in BOOLEAN : BodyLoad(p, ok)
  \/ \E p \in Inits, last \in BOOLEAN : BodyPoll(p, last)
  \/ \E t \in Tasks : InitStart(t)
  \/ \E t \in Tasks : InitWaitClean(t)
  \/ \E t \in Tasks : InitSleep500(t)
  \/ \E t \in Tasks : InitAwait(t)
  \/ \E tm \in TimerIds : TimerFire(tm)
  \/ \E t \in Tasks : TimerAfterInit(t)
  \/ Coordinator
  \/ Manual
  \/ CallInitialize
  \/ CallReconnect

SpecCleanup == InitCleanup /\ [][NextCleanup]_vars

\* ---- status reads on a socket that cannot be probed: initialize() at
\* startup, transport events, the auto-reconnect timer, the clock
NextFault ==
  \/ Transport
  \/ Engine
  \/ CallInitialize
  \/ Tick
  \/ GetStatus
  \/ \E thr1, thr2 \in BOOLEAN : GetStatusFault(thr1, thr2)

SpecFault == Init /\ [][NextFault]_vars

\* ---- a requestQR() and then a reconnect(), beside 'qr' and 'open' events
\* and closes by logout, where timers fire, awaited transport and library calls return and
\* continuations run: the event loop leaves no step of a caller, of an
\* initialization or of a cleanup enabled forever
MaxProgressOverlap == 2   \* public operations in flight at once in SpecProgress
InitProgress ==
  InitWith(MaxSessions, MaxProgressOverlap, MaxCalls, MaxProgressOverlap, FALSE)

Internal == Initialization \/ Coordinator \/ Manual

NextProgress ==
  \/ \E s \in Sessions : EvClose(s, LOGGED_OUT)
  \/ \E s \in Sessions : EvOpen(s)
  \/ \E s \in Sessions : EvQR(s)
  \/ \E p \in DOMAIN qrs, ok \in BOOLEAN : EncodeDone(p, ok)
  \/ Internal
  \/ calls = 0 /\ CallRequestQR
  \/ calls = 1 /\ CallReconnect

SpecProgress == InitProgress /\ [][NextProgress]_vars /\ WF_vars(Internal)

\* ---- sessions that authenticate from saved credentials with no 'open'
\* event: initialize() calls and status reads beside transport events, the
\* auto-reconnect timer and the clock
NextAuth ==
  \/ Transport
  \/ Engine
  \/ \E s \in Sessions : SessionAuth(s)
  \/ CallInitialize
  \/ GetStatus
  \/ Tick

SpecAuth == Init /\ [][NextAuth]_vars

\* ---- the auto-reconnect loop left to itself: one initialize() at startup,
\* then closes only; initializations do not throw; timers fire, awaited
\* transport calls return and continuations run
AutoSteps ==
  \/ \E logoutOk \in BOOLEAN : CleanupFinish(logoutOk, TRUE)
  \/ \E p \in Inits : BodyLoad(p, TRUE)
  \/ \E p \in Inits, last \in BOOLEAN : BodyPoll(p, last)
  \/ \E tm \in TimerIds : TimerFire(tm)
  \/ \E t \in Tasks : TimerAfterInit(t)
  \/ \E t \in Tasks : InitStart(t)
  \/ \E t \in Tasks : InitAwait(t)

NextAuto ==
  \/ \E s \in Sessions, c \in Causes : EvClose(s, c)
  \/ AutoSteps
  \/ CallInitialize

SpecAuto == InitBackoff /\ [][NextAuto]_vars /\ WF_vars(AutoSteps)

\* ---- properties
InitsInFlight == {p \in Inits : bodies[p].pc \notin {"none", "ok", "err"}}
LiveSessions == {s \in Sessions : Alive(s)}
AttachedSessions == {s \in Sessions : sess[s].life = "attached"}
AllReturned == (\A t \in Tasks : ~Busy(t)) /\ InitsInFlight = {} /\ cl = Idle

\* C1: among overlapping initialize() and requestQR() calls, also ones made
\* while a stale session is being cleaned up, at most one initialization is
\* in flight (a later caller awaits it), and once every call has returned
\* one session is alive or none
C1_SingleInitialization ==
  /\ Cardinality(InitsInFlight) <= 1
  /\ AllReturned => Cardinality(LiveSessions) <= 1

\* C2: in every reachable state, whatever the interleaving of operations
\* and events (a reconnect beside an initialization in flight, a timer
\* beside a manual reconnect), at most one created session still has its
\* subscriptions attached
C2_OneAttachedSession == Cardinality(AttachedSessions) <= 1

\* C3: right after requestQR(), getQR(), reconnect() or getStatus() has
\* returned, connected is true if and only if the phase is CONNECTED
Agree(gg) == gg.connected <=> gg.state = "CONNECTED"
C3_ConnectedIffPhase ==
  /\ ret.op \in {"genQR", "route", "reconnect"} => Agree(g)
  /\ Quiet => Agree(getWhatsAppStatus(g, sess))

\* a step in which caller t calls cleanupSocket (lines 787, 687)
CleanupCalledBy(t) ==
  /\ Busy(t) /\ tasks'[t] # <<>>
  /\ \/ /\ Top(t).fn = "init" /\ Top(t).pc \in {"start", "waitClean"}
        /\ Head(tasks'[t]).pc \in {"awaitClean", "sleep500"}
     \/ /\ Top(t).fn = "reconnect" /\ Top(t).pc \in {"start", "race"}
        /\ Head(tasks'[t]).pc \in {"awaitClean", "sleep1"}
\* a step in which the handler of a 'close' calls cleanupSocket (line 370)
CleanupCalledByHandler ==
  \E s \in Sessions : sess[s].life = "attached" /\ sess[s].ph # "closed"
                        /\ sess'[s].ph = "closed"
TornDown == {s \in Sessions : sess[s].life = "detached"}

\* C4: a cleanupSocket() called while a cleanup is in progress starts no
\* teardown: the cleanup in progress, the socket reference, the flag and the
\* listeners and life of every session are as before the call; at most one
\* teardown is in progress at any time
C4_SecondCleanupNoEffect ==
  /\ [](Cardinality(TornDown) <= 1)
  /\ [][(g.isCleaningUp /\ (CleanupCalledByHandler \/ \E t \in Tasks : CleanupCalledBy(t)))
         => /\ cl' = cl /\ g'.isCleaningUp /\ g'.socket = g.socket
            /\ \A s \in Sessions : sess'[s].life = sess[s].life]_vars
\* reconnect() went on after its cleanupSocket() while the cleanup of another
\* caller is tearing a session down
C4_Witness ==
  /\ cl.pc = "busy" /\ sess[cl.sock].life = "detached"
  /\ \E t \in Tasks : At(t, "reconnect", "sleep1") /\ cl.owner # t

\* C5: the tenth recoverable close in a row (no 'open', no manual reconnect
\* in between) finds the counter at 9 and leaves it at the cap of 10, and an
\* eleventh finds shouldReconnect false and schedules no timer
C5_CapAfterTenCloses ==
  /\ hist.streak = MAX_RECONNECT_ATTEMPTS =>
       hist.n + 1 = MAX_RECONNECT_ATTEMPTS /\ hist.delay # 0
  /\ hist.streak = MAX_RECONNECT_ATTEMPTS + 1 => hist.delay = 0

\* the delays of the spec, in ms, for attempts 0, 1, 2, ...
BackoffDelays == <<5000, 10000, 20000, 40000, 60000, 60000, 60000, 60000, 60000, 60000>>
\* C6: the k-th recoverable close in a row is scheduled with the k-th delay
\* of 5 s, 10 s, 20 s, 40 s, 60 s, 60 s, ...
C6_BackoffSequence ==
  hist.streak \in 1..MAX_RECONNECT_ATTEMPTS => hist.delay = BackoffDelays[hist.streak]

\* C7: a 'close' with cause loggedOut or 440 leaves the counter as it was;
\* from then until a public operation is called the phase is DISCONNECTED
\* and no auto-reconnect timer is pending
C7_TerminalClose ==
  /\ [](hist.term => g.state = "DISCONNECTED" /\ g.timers = {})
  /\ [][CleanupCalledByHandler /\ hist'.term
         => g'.reconnectAttempts = g.reconnectAttempts]_vars

\* a successful return of requestQR() or getQR() in the last step
QrReturned == ret.op \in {"genQR", "route"} /\ ret.res = "ok"
\* C8: a cached image has an expiry, and the image a successful requestQR()
\* or getQR() hands out is the cached one and its expiry has not passed
C8_NoExpiredImage ==
  /\ g.currentQRCode # NULL => g.qrExpiresAt # NoDate
  /\ QrReturned => /\ ret.qrCode = g.currentQRCode
                   /\ g.qrExpiresAt # NoDate /\ ~NowAfter(g.qrExpiresAt)

\* the value with which the executing call of t returns in this step
Result(t) == IF tasks'[t] = <<>> THEN ret' ELSE rv'
\* a step in which requestQR() or getQR() answers at once, from the cache
\* (part_006 lines 468-474, route.ts lines 44-56)
CacheAnswer(t) ==
  /\ running = t /\ Busy(t) /\ Top(t).fn \in {"genQR", "route"} /\ Top(t).pc = "start"
  /\ Len(tasks'[t]) < Len(tasks[t]) /\ Result(t).res = "ok"
\* C9: an answer from the cache carries the cached image and expiresIn equal
\* to the whole seconds left until its expiry, between 0 and 60
C9_CacheAnswer ==
  [][\A t \in Tasks : CacheAnswer(t) =>
        /\ Result(t).qrCode = g'.currentQRCode
        /\ Result(t).expiresIn = RemainingSeconds(g'.qrExpiresAt)
        /\ Result(t).expiresIn \in 0..QR_VALIDITY_SECONDS]_vars

\* the session is live and the phase is CONNECTED
Live == /\ g.socket # NULL /\ HasUser(sess, g.socket)
        /\ g.connected /\ g.state = "CONNECTED"
\* C10: requestQR() or getQR() called while the session is live fails with
\* AlreadyConnected in its first step; no initialization starts, no session
\* is created or torn down, and the state stays connected / CONNECTED
C10_AlreadyConnected ==
  [][\A t \in Tasks :
        (Live /\ running = t /\ Busy(t) /\ Top(t).fn \in {"genQR", "route"}
              /\ Top(t).pc = "start")
        => /\ Len(tasks'[t]) < Len(tasks[t]) /\ Result(t).res = "AlreadyConnected"
           /\ sess' = sess /\ bodies' = bodies /\ cl' = cl
           /\ g'.socket = g.socket /\ g'.isInitializing = g.isInitializing
           /\ g'.connected /\ g'.state = "CONNECTED"]_vars
\* getQR() or requestQR() has just failed with AlreadyConnected on a live session
C10_Witness ==
  /\ Live /\ ret.op \in {"genQR", "route"} /\ ret.res = "AlreadyConnected"

\* requestQR() is at its entry on module state gg with nothing to reuse: not
\* connected, no unexpired cached QR, no session, no initialization in flight
NothingToReuse(gg) ==
  /\ ~gg.connected /\ ~CacheValid(gg) /\ gg.socket = NULL
  /\ ~gg.isInitializing /\ InitsInFlight = {}
\* C11: a requestQR() entered while not connected, with no unexpired cached
\* QR, no session and no initialization in flight, goes on to call
\* initialize(): at once, or from the catch of its await on an initialization
\* promise that has rejected (line 488); it does not wait on an initialization
\* that completed earlier
C11_RequestQRInitializes ==
  [][\A t \in Tasks :
        (Runs(t, "genQR", "start") /\ NothingToReuse(getWhatsAppStatus(g, sess)))
        => /\ Busy(t)'
           /\ \/ Top(t)'.fn = "init"
              \/ Top(t)'.pc = "awaitInitP" /\ bodies[Top(t)'.x].pc = "err"]_vars

\* a reconnect() has just returned a QR
ReconnectReturned == ret.op = "reconnect" /\ ret.res = "ok"
\* the session that emitted the payload of image i
IssuedBy(i) == qrs[i - ImageBase]
\* C12: when a reconnect() called in phase QR_READY returns a QR, no session
\* but the current one is alive, the current session is alive with its
\* listeners attached, the reconnect counter is 0, and the QR returned was
\* issued by the current session and has expiresIn 60
C12_ReconnectFreshQR ==
  ReconnectReturned =>
    /\ g.socket # NULL /\ LiveSessions = {g.socket} /\ AttachedSessions = {g.socket}
    /\ g.reconnectAttempts = 0
    /\ IssuedBy(ret.qrCode) = g.socket
    /\ ret.expiresIn = QR_VALIDITY_SECONDS

\* the cached state gg agrees with the live session: connected exactly when
\* a session is referenced and its user field is present
AgreesWithSession(gg) == gg.connected <=> (gg.socket # NULL /\ HasUser(sess, gg.socket))
\* C13: whenever getStatus() can be called, the state it leaves agrees with
\* the live session, whatever the cached phase was
C13_ReconcileAgrees == Quiet => AgreesWithSession(getWhatsAppStatus(g, sess))

\* this step is the first of a manual reconnect(), handles an 'open' event,
\* or starts a new initialization
CancelsTimers ==
  \/ \E t \in Tasks : Runs(t, "reconnect", "start") /\ tasks'[t] # tasks[t]
  \/ \E s \in Sessions : sess[s].ph = "init" /\ sess'[s].ph = "open"
  \/ \E p \in Inits : bodies[p].pc = "none" /\ bodies'[p].pc = "load"
\* C14: after the first step of a manual reconnect(), the handling of an
\* 'open' event or the start of a new initialization, no auto-reconnect timer
\* scheduled earlier is pending, so none can fire later
C14_NoStaleTimer == [][CancelsTimers => g'.timers = {}]_vars

\* the body of initialization p throws in this step
BodyThrows(p) == bodies[p].pc = "load" /\ bodies'[p].pc = "err"
\* C15: when session creation throws inside an initialization, that step
\* leaves the phase DISCONNECTED, no session referenced, the pending-QR future
\* cleared and the initialization flag false; a caller awaiting the
\* initialization receives the error; and afterwards an initialize() that
\* finds that state starts a fresh initialization, as does a requestQR()
\* that awaited the failed one
C15_InitFailure ==
  [][/\ \A p \in Inits : BodyThrows(p) =>
           /\ g'.state = "DISCONNECTED" /\ g'.socket = NULL
           /\ g'.qrCodePromise = NULL /\ g'.qrCodeResolver = NULL
           /\ ~g'.isInitializing
     /\ \A t \in Tasks :
           /\ (At(t, "init", "awaitInit") /\ tasks'[t] # tasks[t]
                  /\ bodies[Top(t).x].pc = "err")
              => Result(t).res = "err"
           /\ (Runs(t, "init", "start") /\ g.socket = NULL /\ ~g.isInitializing
                  /\ ~g.isCleaningUp)
              => \E p \in Inits : bodies[p].pc = "none" /\ bodies'[p].pc = "load"
           /\ (At(t, "genQR", "awaitInitP") /\ tasks'[t] # tasks[t]
                  /\ bodies[Top(t).x].pc = "err")
              => Top(t)'.fn = "init"]_vars
\* the caller of initialize() has just received the error of a failed
\* session creation
C15_Witness ==
  /\ ret.op = "init" /\ ret.res = "err"
  /\ g.socket = NULL /\ g.state = "DISCONNECTED" /\ ~g.isInitializing
  /\ \E p \in Inits : bodies[p].pc = "err"

\* a cleanup that started with a session finishes in this step
CleanupCompletes == cl.pc = "busy" /\ cl'.pc = "idle"
\* C16: when a cleanup that started with a session finishes, whether logout()
\* and end() threw or not, no session is referenced, the cleanup flag is
\* false, and the caller awaiting the cleanup goes on with its next wait (it
\* receives no error)
C16_CleanupCompletes ==
  [][CleanupCompletes =>
       /\ g'.socket = NULL /\ ~g'.isCleaningUp
       /\ cl.owner # NULL =>
            /\ tasks'[cl.owner] # <<>>
            /\ Head(tasks'[cl.owner]).pc = AfterCleanup(Top(cl.owner).fn)]_vars
\* a cleanup awaited by reconnect() has finished although end() threw
C16_Witness ==
  /\ \E s \in Sessions : sess[s].life = "unended"
  /\ \E t \in Tasks : At(t, "reconnect", "sleep1")
  /\ g.socket = NULL /\ ~g.isCleaningUp /\ cl = Idle

InRequestQR(t) == \E i \in DOMAIN tasks[t] : tasks[t][i].fn = "genQR"
\* a caller is about to create an initialization or a QR promise and the
\* model has no more of them
BoundReached ==
  \/ /\ FreeInits = {}
     /\ \E t \in Tasks : \/ At(t, "init", "start") \/ At(t, "init", "waitClean")
                          \/ At(t, "init", "sleep500")
  \/ /\ FreeQrPromises = {}
     /\ \E t \in Tasks : At(t, "genQR", "ensure")
C18_RequestQRFinishes ==
  \A t \in 1..MaxProgressOverlap : InRequestQR(t) ~> (~InRequestQR(t) \/ BoundReached)
\* a requestQR() waits on a pending QR promise that the module no longer holds
C18_Witness ==
  \E t \in Tasks : /\ At(t, "genQR", "race")
                    /\ qrp[Top(t).x] = NULL
                    /\ g.qrCodePromise # Top(t).x

\* C19: the step that handles a 'close' event of session s leaves connected
\* false, the phase DISCONNECTED, the QR image, its expiry, hasQR and the QR
\* promise cleared, and a cleanup of s in progress; and the phase goes from
\* DISCONNECTED to CONNECTING only in the step of an initialization that
\* creates its socket
CloseHandled(s) == sess[s].ph # "closed" /\ sess'[s].ph = "closed" /\ Alive(s)'
SocketCreated == \E p \in Inits : bodies[p].pc = "load" /\ bodies'[p].pc = "sleep"
C19_CloseDisconnects ==
  [][/\ \A s \in Sessions : CloseHandled(s) =>
          /\ ~g'.connected /\ g'.state = "DISCONNECTED"
          /\ g'.currentQRCode = NULL /\ g'.qrExpiresAt = NoDate /\ ~g'.hasQR
          /\ g'.qrCodePromise = NULL
          /\ cl'.pc = "busy" /\ cl'.sock = s
     /\ (g.state = "DISCONNECTED" /\ g'.state = "CONNECTING") => SocketCreated]_vars

\* C20: the step that handles an 'open' event leaves connected true, the
\* phase CONNECTED, the QR image, its expiry, hasQR and the QR promise
\* cleared, no auto-reconnect timer pending and the reconnect counter 0
OpenHandled == \E s \in Sessions : sess[s].ph = "init" /\ sess'[s].ph = "open"
C20_OpenConnects ==
  [][OpenHandled =>
       /\ g'.connected /\ g'.state = "CONNECTED"
       /\ g'.currentQRCode = NULL /\ g'.qrExpiresAt = NoDate /\ ~g'.hasQR
       /\ g'.qrCodePromise = NULL /\ g'.qrCodeResolver = NULL
       /\ g'.timers = {} /\ g'.reconnectTimer = NULL
       /\ g'.reconnectAttempts = 0]_vars

\* C21: an initialize() entered while a session exists, connected is false
\* and the phase is CONNECTING or QR_READY (PAIRING is never assigned) changes
\* nothing: module state, sessions, cleanup and initializations are as
\* they were, and the call returns or joins the initialization in flight
MidHandshake(gg) ==
  gg.socket # NULL /\ ~gg.connected /\ gg.state \in {"CONNECTING", "QR_READY", "PAIRING"}
C21_InitializeNoOp ==
  [][\A t \in Tasks : (Runs(t, "init", "start") /\ MidHandshake(g)) =>
        /\ g' = g /\ sess' = sess /\ cl' = cl /\ bodies' = bodies /\ qrp' = qrp
        /\ \/ Len(tasks'[t]) < Len(tasks[t])
           \/ Top(t)'.pc = "awaitInit"]_vars

\* C22: when reconnect() calls initialize(), the session that existed has
\* been torn down: the module holds no socket and no session created so far
\* is still attached or waiting for its logout and end
ReconnectInitializes(t) ==
  /\ At(t, "reconnect", "sleep1")
  /\ tasks'[t] # <<>> /\ Head(tasks'[t]).fn = "init"
C22_TeardownFirst ==
  [][\A t \in Tasks : ReconnectInitializes(t) =>
        /\ g.socket = NULL
        /\ \A s \in Sessions : ~Alive(s)]_vars

\* C23: a step that stores a QR image, sets hasQR or moves the phase to
\* QR_READY stores an image whose payload was emitted by the session the
\* module holds, and that session is attached and has not closed
StoresQR == g'.currentQRCode # NULL /\ g'.currentQRCode # g.currentQRCode
InUse(s) == g.socket = s /\ sess[s].life = "attached" /\ sess[s].ph # "closed"
C23_NothingFromDeadSession ==
  [][/\ StoresQR => InUse(IssuedBy(g'.currentQRCode))
     /\ ((g'.hasQR /\ ~g.hasQR) \/ (g'.state = "QR_READY" /\ g.state # "QR_READY"))
          => StoresQR]_vars

\* C24: while connected is true no QR image is cached, hasQR is false and
\* no requestQR() has just returned a QR
C24_NoQRWhileConnected ==
  g.connected =>
    /\ g.currentQRCode = NULL /\ g.qrExpiresAt = NoDate /\ ~g.hasQR
    /\ ~(ret.op = "genQR" /\ ret.res = "ok")

\* C25: in the state a getStatus() returns, hasQR is true exactly when an
\* image is cached whose expiry has not passed
C25_HasQRIffCached ==
  Quiet => LET st == getWhatsAppStatus(g, sess)
           IN st.hasQR <=> /\ st.currentQRCode # NULL
                           /\ st.qrExpiresAt # NoDate
                           /\ ~NowAfter(st.qrExpiresAt)

\* C26: when the body of an initialization completes and the session the
\* module holds has its identity but has delivered no 'open' event, the
\* state is connected and CONNECTED, the QR image, its expiry, hasQR and the
\* QR promise are cleared, no reconnect timer is pending and the counter is 0
BodyCompletes == \E p \in Inits : bodies[p].pc \in {"sleep", "poll"} /\ bodies'[p].pc = "ok"
AuthenticatedSilently ==
  g.socket # NULL /\ sess[g.socket].ph = "init" /\ HasUser(sess, g.socket)
C26_PostCreationSync ==
  [][(BodyCompletes /\ AuthenticatedSilently) =>
       /\ g'.connected /\ g'.state = "CONNECTED"
       /\ g'.currentQRCode = NULL /\ g'.qrExpiresAt = NoDate /\ ~g'.hasQR
       /\ g'.qrCodePromise = NULL
       /\ g'.timers = {} /\ g'.reconnectTimer = NULL
       /\ g'.reconnectAttempts = 0]_vars

\* C27: a pending auto-reconnect timer leads to a new session in its
\* handshake (or to the last session of the model being used up), and the
\* system does not stay forever in phase CONNECTING with no session, no
\* initialization in flight and no timer pending
Handshaking == g.socket # NULL /\ CanEmit(g.socket)
Stranded ==
  /\ g.state = "CONNECTING" /\ g.socket = NULL /\ g.timers = {}
  /\ ~g.isInitializing /\ \A t \in Tasks : ~Busy(t)
C27_AutoReconnectFires ==
  /\ (g.timers # {}) ~> (Handshaking \/ FreeSessions = {})
  /\ []<>(~Stranded)

\* C28: a getStatus() made while the module holds no session, or one that
\* is not connected, leaves the pending auto-reconnect timers, the tracked
\* timer handle and the reconnect counter as they were
NotLive(gg) == gg.socket = NULL \/ ~HasUser(sess, gg.socket)
C28_StatusKeepsTimer ==
  (Quiet /\ NotLive(g)) =>
     LET st == getWhatsAppStatus(g, sess)
     IN /\ st.timers = g.timers
        /\ st.reconnectTimer = g.reconnectTimer
        /\ st.reconnectAttempts = g.reconnectAttempts

\* C29: at most one auto-reconnect timer is pending, and reconnectTimer
\* holds a handle exactly when a timer is pending, the handle of that timer
C29_OneTrackedTimer ==
  /\ Cardinality(g.timers) <= 1
  /\ g.reconnectTimer # NULL <=> g.timers # {}
  /\ g.reconnectTimer # NULL => g.reconnectTimer \in g.timers

\* C30: no step leaves the phase DISCONNECTED while the session the module
\* holds has delivered neither 'close' nor 'open' and has no identity; and
\* no initialize() starts the cleanup of such a session
InHandshake(ss, s) == ss[s].life = "attached" /\ ss[s].ph = "init" /\ ~HasUser(ss, s)
InitCleansUp(t) ==
  /\ At(t, "init", "start") \/ At(t, "init", "waitClean")
  /\ cl.pc = "idle" /\ cl'.pc = "busy" /\ cl'.owner = t
C30_HandshakeNotDisconnected ==
  [][/\ (g'.socket # NULL /\ InHandshake(sess', g'.socket)) => g'.state # "DISCONNECTED"
     /\ \A t \in Tasks : InitCleansUp(t) => ~InHandshake(sess, cl'.sock)]_vars

====
